---- MODULE Spec2Model ----
(***************************************************************************)
(* A model of factor_analyzer.py: the FactorAnalyzer object (its three     *)
(* stored matrices), the analyze pipeline (validate, clean, impute, scale, *)
(* fit, rotate, store) and the public fit_factor_analysis, varimax and     *)
(* promax methods.                                                         *)
(*                                                                         *)
(* Numbers.  Table cells are integers (NaN is the missing value).  A       *)
(* correlation-matrix entry is a pair <<num, den>> that stands for the     *)
(* real number sign(num) * sqrt(|num| / den), so Pearson correlations of   *)
(* integer data are exact; <<0, 0>> is NaN.  psi is held in thousandths    *)
(* (One is 1.0).  The delegated numerics (numpy eig and svd, scipy         *)
(* minimize and inv, sklearn scale and LinearRegression) are library code: *)
(* their results are terms, and what the library leaves open (the order of *)
(* the eigenpairs, the points the optimizer tries, its success flag, the   *)
(* singular values) is chosen nondeterministically.                        *)
(***************************************************************************)
EXTENDS Integers, Sequences, FiniteSets, TLC

VARIABLES
    data,             \* the caller's DataFrame, handed to analyze / fit
    log_warnings,     \* self.log_warnings
    corr,             \* self.corr
    loadings,         \* self.loadings
    rotation_matrix,  \* self.rotation_matrix
    pc,               \* position of the call in progress
    frame,            \* locals of the call in progress
    ret,              \* what the last call returned or raised
    log               \* warnings the last call wrote with logging.warning

vars == <<data, log_warnings, corr, loadings, rotation_matrix, pc, frame, ret, log>>

self_fields == <<corr, loadings, rotation_matrix>>

----------------------------------------------------------------------------
(* Bounds of the model *)

NRows == 3
MaxEvals == 2
MaxIter == 3
DefaultMaxIter == 2

(* Program constants *)

One == 1000
LowerBound == 5
Half == 500
TolDen == 100000
NaN == -1

VarNames == <<"x1", "x2">>
NVars == Len(VarNames)

RECURSIVE Fact(_)
Fact(n) ==
    IF n <= 1 THEN 1 ELSE n * Fact(n - 1)

\* cell values are multiples of Unit, so that every column mean and median
\* of at most NRows cells is an integer again
Unit == Fact(NRows)
CellValues == {0, Unit}

None == [kind |-> "None"]

----------------------------------------------------------------------------
(* Sequences and arithmetic *)

RECURSIVE SumSeq(_)
SumSeq(s) ==
    IF s = <<>> THEN 0 ELSE Head(s) + SumSeq(Tail(s))

RECURSIVE Gcd(_, _)
Gcd(a, b) ==
    IF b = 0 THEN a ELSE Gcd(b, a % b)

Abs(a) ==
    IF a < 0 THEN 0 - a ELSE a

\* the ascending sort of a sequence of integers
RECURSIVE Sorted(_)
Sorted(s) ==
    IF s = <<>> THEN <<>>
    ELSE LET m == CHOOSE i \in 1..Len(s) : \A j \in 1..Len(s) : s[i] <= s[j]
         IN  <<s[m]>> \o Sorted([k \in 1..(Len(s) - 1) |-> IF k < m THEN s[k] ELSE s[k + 1]])

\* the elements of a set of integers in ascending order
RECURSIVE Ascending(_)
Ascending(S) ==
    IF S = {} THEN <<>>
    ELSE LET m == CHOOSE x \in S : \A y \in S : x <= y
         IN  <<m>> \o Ascending(S \ {m})

Range(s) ==
    {s[i] : i \in 1..Len(s)}

Perms(n) ==
    {f \in [1..n -> 1..n] : \A i, j \in 1..n : f[i] = f[j] => i = j}

----------------------------------------------------------------------------
(* DataFrames: [n |-> rows, scaled, cols |-> <<[name, obj, cells]>>]; obj  *)
(* marks a column that holds a cell that is not a real number (text), and  *)
(* scaled a table whose columns sklearn scale has standardized.            *)

Cells == CellValues \cup {NaN}

CellCode(v) ==
    IF v = NaN THEN 0 ELSE 1 + v

\* a row as a number, its cells as digits
RowCode(cols, r) ==
    SumSeq([c \in 1..Len(cols) |-> CellCode(cols[c].cells[r]) * ((Unit + 2) ^ (c - 1))])

\* The tables a caller may hand in.  What the program computes of a table
\* (null tests, column means and medians, dropna, scale, corr) does not
\* depend on the order of its rows, so one order per bag of rows is enough.
Tables ==
    {t \in {[n |-> NRows, scaled |-> FALSE,
             cols |-> [i \in 1..NVars |-> [name |-> VarNames[i], obj |-> o[i], cells |-> c[i]]]] :
                o \in [1..NVars -> BOOLEAN], c \in [1..NVars -> [1..NRows -> Cells]]} :
        \A r \in 1..(NRows - 1) : RowCode(t.cols, r) <= RowCode(t.cols, r + 1)}

HasNull(col) ==
    \E r \in 1..Len(col.cells) : col.cells[r] = NaN

\* df.isnull().any().any()
AnyNull(df) ==
    \E c \in 1..Len(df.cols) : HasNull(df.cols[c])

NotNull(col) ==
    SelectSeq(col.cells, LAMBDA v : v # NaN)

\* a cleaning that keeps every column: C6 must tell it from remove_non_numeric
keep_all_columns(df) ==
    df

\* remove_non_numeric: keep the columns all of whose cells are real
remove_non_numeric(df) ==
    [df EXCEPT !.cols = SelectSeq(df.cols, LAMBDA c : ~c.obj)]

\* the names remove_non_numeric reports as removed
non_numeric_columns(df) ==
    {df.cols[c].name : c \in {i \in 1..Len(df.cols) : df.cols[i].obj}}

\* Series.mean(): over the cells that are not missing; NaN when there are none
Mean(col) ==
    LET xs == NotNull(col)
    IN  IF xs = <<>> THEN NaN ELSE SumSeq(xs) \div Len(xs)

\* Series.median(): the middle cell, or the mean of the two middle cells
Median(col) ==
    LET xs == Sorted(NotNull(col))
        m  == Len(xs)
    IN  IF m = 0 THEN NaN
        ELSE IF m % 2 = 1 THEN xs[(m + 1) \div 2]
        ELSE (xs[m \div 2] + xs[m \div 2 + 1]) \div 2

\* x.fillna(v)
FillNa(col, v) ==
    [col EXCEPT !.cells = [r \in 1..Len(col.cells) |-> IF col.cells[r] = NaN THEN v ELSE col.cells[r]]]

\* df.dropna(): the rows without a missing cell, in order
DropNa(df) ==
    LET rows == Ascending({r \in 1..df.n : \A c \in 1..Len(df.cols) : df.cols[c].cells[r] # NaN})
    IN  [df EXCEPT !.n = Len(rows),
                   !.cols = [c \in 1..Len(df.cols) |->
                               [df.cols[c] EXCEPT !.cells = [r \in 1..Len(rows) |-> df.cols[c].cells[rows[r]]]]]]

ImputeValues == {"drop", "mean", "median"}

\* analyze, lines 589-606, for a df that has missing cells
Impute(df, impute) ==
    CASE impute = "median" -> [df EXCEPT !.cols = [c \in 1..Len(df.cols) |-> FillNa(df.cols[c], Median(df.cols[c]))]]
      [] impute = "mean"   -> [df EXCEPT !.cols = [c \in 1..Len(df.cols) |-> FillNa(df.cols[c], Mean(df.cols[c]))]]
      [] impute = "drop"   -> DropNa(df)

\* sklearn scale(df) raises ValueError for a table with a missing cell,
\* without a row or without a column
ScaleFails(df) ==
    AnyNull(df) \/ df.n = 0 \/ Len(df.cols) = 0

\* scale(df): every column to zero mean and unit variance (a column without
\* variance to zeros); the cells are kept as they were and the table marked,
\* since the fit reads X only through X.corr() and X.columns, and a Pearson
\* correlation does not change under a positive affine map of a column
Scale(df) ==
    [df EXCEPT !.scaled = TRUE]

----------------------------------------------------------------------------
(* Correlation matrices: a sequence of rows of entries <<num, den>>.       *)

NaNEntry == <<0, 0>>
UnitEntry == <<1, 1>>

Sign(a) ==
    IF a < 0 THEN 0 - 1 ELSE IF a > 0 THEN 1 ELSE 0

\* sign(num) * sqrt(|num| / den) in lowest terms
Reduce(num, den) ==
    LET g == Gcd(Abs(num), den)
    IN  <<num \div g, den \div g>>

\* the entry that stands for v thousandths
EntryOf(v) ==
    Reduce(Sign(v) * v * v, One * One)

Dot(xs, ys) ==
    SumSeq([r \in 1..Len(xs) |-> xs[r] * ys[r]])

\* n^2 times the covariance of columns i and j of a table without missing
\* cells
Gram(df) ==
    [i \in 1..Len(df.cols) |-> [j \in 1..Len(df.cols) |->
        df.n * Dot(df.cols[i].cells, df.cols[j].cells)
            - SumSeq(df.cols[i].cells) * SumSeq(df.cols[j].cells)]]

\* DataFrame.corr(): Pearson; NaN where a column has no variance or the
\* table fewer than two rows
Corr(df) ==
    LET g == Gram(df)
    IN  [i \in 1..Len(df.cols) |-> [j \in 1..Len(df.cols) |->
            IF df.n < 2 \/ g[i][i] = 0 \/ g[j][j] = 0 THEN NaNEntry
            ELSE IF i = j THEN UnitEntry
            ELSE Reduce(Sign(g[i][j]) * g[i][j] * g[i][j], g[i][i] * g[j][j])]]

\* corr.isnull().all().all(), a test C4 must tell from the one of line 456
CorrAllNull(m) ==
    \A i \in 1..Len(m) : \A j \in 1..Len(m) : m[i][j] = NaNEntry

\* corr.isnull().any().any()
CorrIsNull(m) ==
    \E i \in 1..Len(m) : \E j \in 1..Len(m) : m[i][j] = NaNEntry

\* np.fill_diagonal(m, 1 - psi)
FillDiagonal(m, psi) ==
    [i \in 1..Len(m) |-> [j \in 1..Len(m) |-> IF i = j THEN EntryOf(One - psi[i]) ELSE m[i][j]]]

Diagonal(m) ==
    [i \in 1..Len(m) |-> m[i][i]]

\* a square integer matrix without row i and column i
Without(g, i) ==
    [a \in 1..(Len(g) - 1) |-> [b \in 1..(Len(g) - 1) |->
        g[IF a < i THEN a ELSE a + 1][IF b < i THEN b ELSE b + 1]]]

\* the determinant, expanded along the first row
RECURSIVE Det(_)
Det(g) ==
    IF Len(g) = 0 THEN 1
    ELSE SumSeq([j \in 1..Len(g) |->
            (IF j % 2 = 1 THEN 1 ELSE 0 - 1) * g[1][j]
                * Det([a \in 1..(Len(g) - 1) |-> [b \in 1..(Len(g) - 1) |->
                        g[a + 1][IF b < j THEN b ELSE b + 1]]])])

\* sp.linalg.inv(corr) raises LinAlgError for a singular matrix: the
\* columns of the table are linearly dependent
Singular(df) ==
    Det(Gram(df)) = 0

\* smc, lines 232-236, and line 468: diag(corr) - smc = 1 / diag(inv(corr)),
\* which is det(corr) / det(corr without variable i), in thousandths
SmcStart(df) ==
    LET g == Gram(df)
    IN  [i \in 1..Len(df.cols) |->
            LET num == Det(g)
                den == g[i][i] * Det(Without(g, i))
                c   == Gcd(num, den)
            IN  (One * (num \div c)) \div (den \div c)]

----------------------------------------------------------------------------
(* Options, exceptions, return values *)

Rotations == {"varimax", "promax", "None", "oblimin"}
Methods == {"minres", "ml", "pa"}
Imputes == ImputeValues \cup {"none"}
DefaultBounds == <<LowerBound, One>>
NoBounds == <<>>

Options ==
    [n_factors : 1..NVars, rotation : Rotations, method : Methods, use_smc : BOOLEAN,
     bounds : {DefaultBounds, NoBounds}, normalize : BOOLEAN, impute : Imputes]

\* a validation that lets every rotation through: C5 must tell it from the
\* one of line 580
AnyRotation(rotation) ==
    rotation \in Rotations

\* analyze, line 580
ValidRotation(rotation) ==
    rotation \in {"varimax", "promax", "None"}

ValueError(msg) ==
    [kind |-> "ValueError", msg |-> msg]

LinAlgError(msg) ==
    [kind |-> "LinAlgError", msg |-> msg]

IsError(v) ==
    v.kind \in {"ValueError", "LinAlgError"}

NoTable == [n |-> 0, scaled |-> FALSE, cols |-> <<>>]

\* pd.DataFrame(values, index, columns)
DataFrame(values, index, columns) ==
    [kind |-> "DataFrame", index |-> index, columns |-> columns, values |-> values]

NCols(frm) ==
    Len(frm.columns)

ColumnNames(df) ==
    [c \in 1..Len(df.cols) |-> df.cols[c].name]

----------------------------------------------------------------------------
(* analyze, lines 580-615: validation, cleaning, imputation, scaling.      *)
(* done lists the stages that ran.                                         *)

AnalyzePrepare(d, o, lw) ==
    IF ~ValidRotation(o.rotation)
    THEN [exc |-> ValueError("rotation"), df |-> NoTable, X |-> NoTable, log |-> {}, done |-> <<>>]
    ELSE LET df0 == remove_non_numeric(d)
             lg  == IF non_numeric_columns(d) # {} /\ lw THEN {"non_numeric"} ELSE {}
         IN  IF AnyNull(df0) /\ o.impute \notin ImputeValues
             THEN [exc |-> ValueError("impute"), df |-> df0, X |-> NoTable, log |-> lg,
                   done |-> <<"remove_non_numeric">>]
             ELSE LET df == IF AnyNull(df0) THEN Impute(df0, o.impute) ELSE df0
                      dn == IF AnyNull(df0) THEN <<"remove_non_numeric", "impute", "scale">>
                                            ELSE <<"remove_non_numeric", "scale">>
                  IN  IF ScaleFails(df)
                      THEN [exc |-> ValueError("scale"), df |-> df, X |-> NoTable, log |-> lg, done |-> dn]
                      ELSE [exc |-> None, df |-> df, X |-> Scale(df), log |-> lg, done |-> dn]

----------------------------------------------------------------------------
(* fit_factor_analysis, lines 445-484: up to the call of minimize          *)

\* a dispatch that sends only 'minres' to ULS: C9 must tell it from the one
\* of lines 481 and 501
UsesMLUnlessMinres(method) ==
    method # "minres"

\* the test of lines 481 and 501
UsesML(method) ==
    method = "ml"

\* line 445
MethodWarning(method, lw) ==
    IF method \notin {"ml", "minres"} /\ lw THEN {"method"} ELSE {}

FitPrepare(X, o, lw) ==
    LET lg == MethodWarning(o.method, lw)
        c  == Corr(X)
    IN  IF CorrIsNull(c)
        THEN [exc |-> ValueError("corr_null"), corr_mtx |-> c, start |-> <<>>, log |-> lg,
              objective |-> "none"]
        ELSE IF o.use_smc /\ Singular(X)
        THEN [exc |-> LinAlgError("singular"), corr_mtx |-> c, start |-> <<>>, log |-> lg,
              objective |-> "none"]
        ELSE [exc |-> None, corr_mtx |-> c, log |-> lg,
              start |-> IF o.use_smc THEN SmcStart(X) ELSE [i \in 1..Len(c) |-> Half],
              objective |-> IF UsesML(o.method) THEN "ml" ELSE "uls"]

Min(a, b) ==
    IF a < b THEN a ELSE b

Max(a, b) ==
    IF a < b THEN b ELSE a

\* the points L-BFGS-B tries lie inside the bounds
PsiGrid == {0, LowerBound, One}

Feasible(bounds) ==
    {v \in PsiGrid : bounds = NoBounds \/ (bounds[1] <= v /\ v <= bounds[2])}

Clip(psi, bounds) ==
    IF bounds = NoBounds THEN psi
    ELSE [i \in 1..Len(psi) |-> Max(bounds[1], Min(bounds[2], psi[i]))]

TrialPsi(p, bounds) ==
    {[i \in 1..p |-> v] : v \in Feasible(bounds)}

\* np.linalg.eig returns its eigenpairs in no particular order: order[j] is
\* the rank (1 the largest) of the j-th eigenvalue returned, and of the
\* eigenvector in column j
EigOrders(p) ==
    Perms(p)

\* _fit_uls_objective, lines 265-300: the matrix it leaves behind, and the
\* eigenvalues and eigenvectors its loadings are built from
fit_uls_objective(psi, corr_mtx, n_factors, order) ==
    LET m == FillDiagonal(corr_mtx, psi)
        k == Min(n_factors, Len(m))
    IN  [exc |-> None, corr_mtx |-> m,
         values |-> [j \in 1..k |-> j],
         vectors |-> [j \in 1..k |-> order[j]]]

\* _fit_ml_objective, lines 322-332: eig raises LinAlgError when 1/sqrt(psi)
\* is infinite or NaN; the eigenvalues kept are those of rank k+1 .. p
fit_ml_objective(psi, corr_mtx, n_factors, order) ==
    LET p == Len(corr_mtx)
    IN  [exc |-> IF \E i \in 1..p : psi[i] <= 0 THEN LinAlgError("eig") ELSE None,
         corr_mtx |-> corr_mtx,
         values |-> [j \in 1..Max(p - n_factors, 0) |-> n_factors + j],
         vectors |-> <<>>]

\* the function minimize was handed (lines 486-491) is called
Objective(objective, psi, corr_mtx, n_factors, order) ==
    IF objective = "ml" THEN fit_ml_objective(psi, corr_mtx, n_factors, order)
    ELSE fit_uls_objective(psi, corr_mtx, n_factors, order)

\* _normalize_wls, lines 354-367: the first k eigenpairs as returned
normalize_wls(solution, corr_mtx, n_factors, order) ==
    LET m == FillDiagonal(corr_mtx, solution)
        k == Min(n_factors, Len(m))
    IN  [corr_mtx |-> m,
         loadings |-> [op |-> "wls", of |-> m, solution |-> solution,
                       cols |-> [j \in 1..k |-> [vec |-> order[j], val |-> order[j]]]]]

\* _normalize_ml, lines 388-403: the k largest eigenvalues, the first k
\* eigenvectors as returned
normalize_ml(solution, corr_mtx, n_factors, order) ==
    LET k == Min(n_factors, Len(corr_mtx))
    IN  [corr_mtx |-> corr_mtx,
         loadings |-> [op |-> "ml", of |-> corr_mtx, solution |-> solution,
                       cols |-> [j \in 1..k |-> [vec |-> order[j], val |-> j]]]]

\* lines 501-504
Normalize(method, solution, corr_mtx, n_factors, order) ==
    IF UsesML(method) THEN normalize_ml(solution, corr_mtx, n_factors, order)
    ELSE normalize_wls(solution, corr_mtx, n_factors, order)

\* a warning that does not ask for log_warnings: C8 must tell it from the
\* one of line 493
ConvergenceWarningAlways(success, lw) ==
    IF ~success THEN {"converge"} ELSE {}

\* line 493
ConvergenceWarning(success, lw) ==
    IF ~success /\ lw THEN {"converge"} ELSE {}

\* lines 496-509: the loadings as a DataFrame; pandas raises ValueError when
\* the array has not one column per name
FitResult(ld, X, n_factors) ==
    IF Len(ld.cols) # n_factors THEN ValueError("shape")
    ELSE DataFrame(ld, ColumnNames(X), [j \in 1..n_factors |-> j])

----------------------------------------------------------------------------
(* varimax, lines 668-733, and promax, lines 762-823                       *)

Pair(ld, rot) ==
    [kind |-> "pair", loadings |-> ld, rotation_mtx |-> rot]

\* np.eye(n_cols), line 690
Eye(n) ==
    [kind |-> "eye", n |-> n]

\* the sums of singular values np.linalg.svd may give
DVals == {0, TolDen, TolDen + 1}

\* the ratio test without old_d != 0: C10 must tell it from the one of
\* line 714
ConvergedUnguarded(old_d, d) ==
    d <= old_d \/ (d - old_d) * TolDen < old_d

\* line 714: old_d != 0 and d / old_d < 1 + tolerance, with tolerance
\* 1 / TolDen and d, old_d >= 0
Converged(old_d, d) ==
    old_d # 0 /\ (d <= old_d \/ (d - old_d) * TolDen < old_d)

\* lines 678-692: the state of the loop before its first iteration
VarimaxLoop(frm, normalize, max_iter) ==
    [column_names |-> frm.index, index_names |-> frm.columns,
     normalize |-> normalize, max_iter |-> max_iter,
     X |-> IF normalize THEN [op |-> "kaiser", of |-> frm.values] ELSE frm.values,
     rotation_mtx |-> Eye(NCols(frm)), d |-> 0, old_d |-> 0, iter |-> 0, broke |-> FALSE]

\* lines 695-715: one iteration, the singular values summing to d
VarimaxStep(rot, d) ==
    [rot EXCEPT !.old_d = rot.d, !.d = d, !.iter = rot.iter + 1,
                !.rotation_mtx = [kind |-> "UV", of |-> rot.X, iter |-> rot.iter + 1],
                !.broke = Converged(rot.d, d)]

\* line 693: the loop goes on
VarimaxRuns(rot) ==
    rot.iter < rot.max_iter /\ ~rot.broke

\* lines 717-733
VarimaxResult(rot) ==
    Pair(DataFrame([op |-> "varimax", X |-> rot.X, rotation_mtx |-> rot.rotation_mtx,
                    denormalize |-> rot.normalize],
                   rot.column_names, rot.index_names),
         rot.rotation_mtx)

\* lines 772-786: the loadings promax hands to varimax
PromaxWeights(frm, normalize) ==
    IF normalize THEN DataFrame([op |-> "h2", of |-> frm.values], frm.index, frm.columns)
    ELSE frm

\* sp.dot(coef.T, coef), line 802: singular or not, as the regression left it
CoefSquare(singular) ==
    [op |-> "coef.T * coef", singular |-> singular]

\* sp.linalg.inv raises LinAlgError for a singular matrix
Inv(m) ==
    IF m.singular THEN LinAlgError("singular") ELSE [kind |-> "array", op |-> "inv", of |-> m]

\* sp.linalg.pinv has a value for every matrix
Pinv(m) ==
    [kind |-> "array", op |-> "pinv", of |-> m]

\* the diagonal of the inverse with no handler around inv: C11 must tell it
\* from the one of lines 801-804
DiagInvUncaught(m) ==
    Inv(m)

\* lines 801-804: try inv, except LinAlgError pinv
DiagInv(m) ==
    IF IsError(Inv(m)) THEN Pinv(m) ELSE Inv(m)

\* lines 790-823; an exception of the rescaling step leaves promax
PromaxResult(frm, varimaxed, normalize, singular) ==
    LET diag_inv == DiagInv(CoefSquare(singular))
        coef     == [op |-> "coef", X |-> varimaxed.loadings.values, diag_inv |-> diag_inv]
    IN  IF IsError(diag_inv) THEN diag_inv
        ELSE Pair(DataFrame([op |-> "promax", X |-> varimaxed.loadings.values, coef |-> coef,
                             postnormalize |-> normalize],
                            frm.index, frm.columns),
                  [kind |-> "dot", left |-> varimaxed.rotation_mtx, right |-> coef])

\* a, b = value (lines 631, 633): a pair unpacks; a DataFrame yields its
\* column labels, and Python raises ValueError unless there are two
Unpack(value) ==
    IF value.kind = "pair" THEN value
    ELSE IF NCols(value) = 2
    THEN Pair([kind |-> "label", v |-> value.columns[1]], [kind |-> "label", v |-> value.columns[2]])
    ELSE ValueError("unpack")

\* loadings a caller hands to varimax or promax: k columns over the variables
InputLoadings ==
    {DataFrame([op |-> "input", k |-> k], VarNames, [j \in 1..k |-> j]) : k \in 0..NVars}

----------------------------------------------------------------------------
(* The state machine *)

Nothing == [kind |-> "nothing"]

DefaultOptions ==
    [n_factors |-> NVars, rotation |-> "promax", method |-> "minres", use_smc |-> TRUE,
     bounds |-> DefaultBounds, normalize |-> TRUE, impute |-> "median"]

NoLoop == [iter |-> 0]

EmptyFrame ==
    [entry |-> "none", opts |-> DefaultOptions, df |-> NoTable, X |-> NoTable,
     corr_mtx |-> <<>>, start |-> <<>>, objective |-> "none", evals |-> <<>>, res |-> Nothing,
     loadings |-> Nothing, via |-> "none", rot |-> NoLoop, done |-> <<>>]

\* fit_factor_analysis has returned to analyze: its locals are gone, and
\* analyze does not read X again
PopFit(f) ==
    [f EXCEPT !.X = NoTable, !.corr_mtx = <<>>, !.start = <<>>, !.objective = "none",
              !.evals = <<>>, !.res = Nothing]

\* __init__, lines 177-182, for a caller whose table is one of T
InitOn(T) ==
    /\ data \in T
    /\ log_warnings \in BOOLEAN
    /\ corr = None
    /\ loadings = None
    /\ rotation_matrix = None
    /\ pc = "idle"
    /\ frame = EmptyFrame
    /\ ret = Nothing
    /\ log = {}

Init ==
    InitOn(Tables)

\* the tables all of whose columns are numeric
NumericTables ==
    {t \in Tables : non_numeric_columns(t) = {}}

\* the call ends: it returns value, or raises it
Return(value, f, lg) ==
    /\ pc' = "done"
    /\ ret' = value
    /\ frame' = f
    /\ log' = lg

\* the call goes on at position at
Goto(at, f, lg) ==
    /\ pc' = at
    /\ frame' = f
    /\ log' = lg
    /\ UNCHANGED ret

\* fit_factor_analysis up to minimize, for the call whose frame is f
EnterFit(f, X, o, lg) ==
    LET fp == FitPrepare(X, o, log_warnings)
        g  == [f EXCEPT !.X = X, !.corr_mtx = fp.corr_mtx, !.start = fp.start,
                        !.objective = fp.objective,
                        !.done = Append(f.done, "fit")]
    IN  IF fp.exc # None THEN Return(fp.exc, g, lg \cup fp.log)
        ELSE Goto("minimize", g, lg \cup fp.log)

\* analyze, lines 580-622
Analyze(o) ==
    /\ pc = "idle"
    /\ LET a == AnalyzePrepare(data, o, log_warnings)
           f == [EmptyFrame EXCEPT !.entry = "analyze", !.opts = o, !.df = a.df, !.done = a.done]
       IN  IF a.exc # None THEN Return(a.exc, f, a.log)
           ELSE EnterFit(f, a.X, o, a.log)
    /\ UNCHANGED <<data, log_warnings, self_fields>>

\* a table fit_factor_analysis can be called on directly
Complete(df) ==
    ~AnyNull(df) /\ non_numeric_columns(df) = {}

\* fit_factor_analysis, lines 445-484, called by the user
FitFactorAnalysis(o) ==
    /\ pc = "idle"
    /\ Complete(data)
    /\ EnterFit([EmptyFrame EXCEPT !.entry = "fit_factor_analysis", !.opts = o], data, o, {})
    /\ UNCHANGED <<data, log_warnings, self_fields>>

\* minimize calls the objective function on one more point: the start
\* first, any point inside the bounds later
ObjectiveEval ==
    /\ pc = "minimize"
    /\ Len(frame.evals) < MaxEvals
    /\ \E psi \in (IF frame.evals = <<>> THEN {Clip(frame.start, frame.opts.bounds)}
                    ELSE TrialPsi(Len(frame.corr_mtx), frame.opts.bounds)),
          order \in EigOrders(Len(frame.corr_mtx)) :
            LET r == Objective(frame.objective, psi, frame.corr_mtx, frame.opts.n_factors, order)
            IN  IF r.exc # None THEN Return(r.exc, frame, log)
                ELSE Goto("minimize",
                          [frame EXCEPT !.corr_mtx = r.corr_mtx, !.evals = Append(frame.evals, psi)],
                          log)
    /\ UNCHANGED <<data, log_warnings, self_fields>>

\* df.corr() as the DataFrame it is, labelled by the columns of df
CorrFrame(df) ==
    DataFrame(Corr(df), ColumnNames(df), ColumnNames(df))

\* the three assignments with the last one made only for a rotation matrix
\* that is not None: C17 must tell it from the ones of lines 635-637
StoreKeepingRotation(f, ld, rot) ==
    /\ corr' = CorrFrame(f.df)
    /\ loadings' = ld
    /\ rotation_matrix' = (IF rot = None THEN rotation_matrix ELSE rot)
    /\ Return(None, [f EXCEPT !.done = Append(f.done, "store")], log')

\* analyze, lines 635-637
Store(f, ld, rot) ==
    /\ corr' = CorrFrame(f.df)
    /\ loadings' = ld
    /\ rotation_matrix' = rot
    /\ Return(None, [f EXCEPT !.done = Append(f.done, "store")], log')

\* what the rotation hands back: to the user, or to analyze (lines 631-637)
RotationReturns(f, value, lg) ==
    IF f.entry = "analyze"
    THEN LET u == Unpack(value)
         IN  IF IsError(u) THEN Return(u, f, lg) /\ UNCHANGED self_fields
             ELSE log' = lg /\ Store(f, u.loadings, u.rotation_mtx)
    ELSE Return(value, f, lg) /\ UNCHANGED self_fields

\* varimax, lines 668-692, and promax, lines 762-789, entered on frm
EnterRotation(f, which, frm, normalize, max_iter, lg) ==
    IF NCols(frm) < 2 THEN RotationReturns([f EXCEPT !.loadings = frm], frm, lg)
    ELSE /\ Goto("varimax",
                 [f EXCEPT !.via = which, !.loadings = frm,
                           !.rot = VarimaxLoop(IF which = "promax" THEN PromaxWeights(frm, normalize) ELSE frm,
                                               normalize, max_iter),
                           !.done = Append(f.done, which)],
                 lg)
         /\ UNCHANGED self_fields

\* minimize returns: lines 493-509, and what analyze does next (624-637)
MinimizeReturn ==
    /\ pc = "minimize"
    /\ frame.evals # <<>>
    /\ \E x \in Range(frame.evals), success \in BOOLEAN, order \in EigOrders(Len(frame.corr_mtx)) :
            LET o   == frame.opts
                lg  == log \cup ConvergenceWarning(success, log_warnings)
                nz  == Normalize(o.method, x, frame.corr_mtx, o.n_factors, order)
                ld  == FitResult(nz.loadings, frame.X, o.n_factors)
                f   == [frame EXCEPT !.corr_mtx = nz.corr_mtx, !.loadings = ld,
                                     !.res = [x |-> x, success |-> success]]
            IN  IF f.entry = "fit_factor_analysis" THEN Return(ld, f, lg) /\ UNCHANGED self_fields
                ELSE IF IsError(ld) THEN Return(ld, PopFit(f), lg) /\ UNCHANGED self_fields
                ELSE IF o.rotation = "None" THEN log' = lg /\ Store(PopFit(f), ld, None)
                ELSE EnterRotation(PopFit(f), o.rotation, ld, o.normalize, DefaultMaxIter, lg)
    /\ UNCHANGED <<data, log_warnings>>

\* varimax called by the user
Varimax(frm, normalize, max_iter) ==
    /\ pc = "idle"
    /\ EnterRotation([EmptyFrame EXCEPT !.entry = "varimax", !.opts.normalize = normalize],
                     "varimax", frm, normalize, max_iter, {})
    /\ UNCHANGED <<data, log_warnings>>

\* promax called by the user; it runs varimax with the default max_iter
Promax(frm, normalize) ==
    /\ pc = "idle"
    /\ EnterRotation([EmptyFrame EXCEPT !.entry = "promax", !.opts.normalize = normalize],
                     "promax", frm, normalize, DefaultMaxIter, {})
    /\ UNCHANGED <<data, log_warnings>>

\* one iteration of the varimax loop
VarimaxIter ==
    /\ pc = "varimax"
    /\ VarimaxRuns(frame.rot)
    /\ \E d \in DVals : Goto("varimax", [frame EXCEPT !.rot = VarimaxStep(frame.rot, d)], log)
    /\ UNCHANGED <<data, log_warnings, self_fields>>

\* the loop is left: lines 717-733, the rest of promax, the rest of analyze
VarimaxReturn ==
    /\ pc = "varimax"
    /\ ~VarimaxRuns(frame.rot)
    /\ LET v == VarimaxResult(frame.rot)
       IN  IF frame.via = "promax"
           THEN \E singular \in BOOLEAN :
                    RotationReturns(frame, PromaxResult(frame.loadings, v, frame.rot.normalize, singular), log)
           ELSE RotationReturns(frame, v, log)
    /\ UNCHANGED <<data, log_warnings>>

\* the caller has its answer; the analyzer waits for the next call
Resume ==
    /\ pc = "done"
    /\ pc' = "idle"
    /\ frame' = EmptyFrame
    /\ ret' = Nothing
    /\ log' = {}
    /\ UNCHANGED <<data, log_warnings, self_fields>>

\* analyze called with its defaults, but for the rotation and the number of
\* factors
LifeOptions ==
    {[DefaultOptions EXCEPT !.rotation = r, !.n_factors = k] : r \in Rotations, k \in 1..NVars}

AnalyzeCall ==
    /\ pc = "idle"
    /\ \E o \in LifeOptions : Analyze(o)

Next ==
    \/ AnalyzeCall
    \/ ObjectiveEval
    \/ MinimizeReturn
    \/ VarimaxIter
    \/ VarimaxReturn
    \/ Resume

\* the analyzer over its life: analyze called again and again
Spec == InitOn(NumericTables) /\ [][Next]_vars

CleanOptions ==
    {o \in Options : o.method = "minres" /\ o.bounds = DefaultBounds /\ o.normalize}

AnalyzeClean ==
    /\ pc = "idle"
    /\ \E o \in CleanOptions : Analyze(o)

\* one call of analyze, up to the point where it calls minimize
SpecClean == Init /\ [][AnalyzeClean]_vars

FitOptions ==
    {o \in Options : o.rotation = "None" /\ o.normalize /\ o.impute = "median"}

FitCall ==
    /\ pc = "idle"
    /\ \E o \in FitOptions : FitFactorAnalysis(o)

NextFit ==
    \/ FitCall
    \/ ObjectiveEval
    \/ MinimizeReturn

\* one call of fit_factor_analysis
SpecFit == Init /\ [][NextFit]_vars

VarimaxCall ==
    /\ pc = "idle"
    /\ \E frm \in InputLoadings, normalize \in BOOLEAN, max_iter \in 0..MaxIter :
            Varimax(frm, normalize, max_iter)

PromaxCall ==
    /\ pc = "idle"
    /\ \E frm \in InputLoadings, normalize \in BOOLEAN : Promax(frm, normalize)

NextRotate ==
    \/ VarimaxCall
    \/ PromaxCall
    \/ VarimaxIter
    \/ VarimaxReturn

\* one call of varimax or promax
SpecRotate == InitOn({NoTable}) /\ [][NextRotate]_vars

----------------------------------------------------------------------------
(* calculate_kaiser_meyer_olkin, lines 121-140. A float is a fraction       *)
(* <<n, d>> in lowest terms with d > 0, or <<0, 0>> for NaN, or <<1, 0>>    *)
(* and <<-1, 0>> for the infinities.                                       *)

\* n / d as a float: division by zero gives NaN or an infinity
Frac(n, d) ==
    IF d = 0 THEN <<Sign(n), 0>>
    ELSE LET g == Gcd(Abs(n), Abs(d))
         IN  <<(Sign(d) * n) \div g, Abs(d) \div g>>

\* a + b and a - b for finite a and b
FracAdd(a, b) ==
    LET g == Gcd(a[2], b[2])
    IN  Frac(a[1] * (b[2] \div g) + b[1] * (a[2] \div g), (a[2] \div g) * b[2])

FracSub(a, b) ==
    FracAdd(a, <<0 - b[1], b[2]>>)

\* a / b for finite a and b
FracDiv(a, b) ==
    Frac(a[1] * b[2], a[2] * b[1])

RECURSIVE FracSum(_)
FracSum(s) ==
    IF s = <<>> THEN <<0, 1>> ELSE FracAdd(Head(s), FracSum(Tail(s)))

\* np.square(corr): the entry <<num, den>> of Corr stands for
\* sign(num) * sqrt(|num| / den)
SquaredCorr(df) ==
    LET c == Corr(df)
    IN  [i \in 1..Len(c) |-> [j \in 1..Len(c) |-> Frac(Abs(c[i][j][1]), c[i][j][2])]]

\* the determinant of g without row i and column j
Minor(g, i, j) ==
    Det([a \in 1..(Len(g) - 1) |-> [b \in 1..(Len(g) - 1) |->
            g[IF a < i THEN a ELSE a + 1][IF b < j THEN b ELSE b + 1]]])

\* np.square(A), lines 129-134: A[i, j] = -corr_inv[i, j] / sqrt(corr_inv[i, i]
\* * corr_inv[j, j]) does not change when the columns of the table are
\* rescaled, so its square is that of the inverse of Gram(df), whose entries
\* are the minors over the determinant
SquaredPartial(df) ==
    LET g == Gram(df)
    IN  [i \in 1..Len(g) |-> [j \in 1..Len(g) |->
            Frac(Minor(g, i, j) * Minor(g, i, j), Minor(g, i, i) * Minor(g, j, j))]]

\* the sum of all entries of a matrix of floats
Total(m) ==
    FracSum([i \in 1..Len(m) |-> FracSum(m[i])])

\* the sum of the diagonal
DiagonalTotal(m) ==
    FracSum([i \in 1..Len(m) |-> m[i][i]])

\* lines 137-139 on the sum np.sum gave for np.square(corr)
KmoValue(sum, corr2, A2) ==
    LET kmo_number      == FracSub(sum, DiagonalTotal(corr2))
        kmo_denominator == FracSub(FracAdd(kmo_number, Total(A2)), DiagonalTotal(A2))
    IN  FracDiv(kmo_number, kmo_denominator)

\* calculate_kaiser_meyer_olkin, lines 122-140. np.sum of a DataFrame is
\* DataFrame.sum(axis=None): the sum of each column, a Series, in the pandas
\* releases that take None for the index axis, and the sum of all entries,
\* a float, in those that reduce over both axes; total says which
calculate_kaiser_meyer_olkin(df, total) ==
    IF Singular(df) THEN LinAlgError("singular")
    ELSE LET corr2 == SquaredCorr(df)
             A2    == SquaredPartial(df)
         IN  IF total THEN [kind |-> "float", value |-> KmoValue(Total(corr2), corr2, A2)]
             ELSE [kind |-> "Series",
                   values |-> [j \in 1..Len(corr2) |->
                                KmoValue(FracSum([i \in 1..Len(corr2) |-> corr2[i][j]]), corr2, A2)]]

\* the cells of a table handed to calculate_kaiser_meyer_olkin
KmoCells == {0, 1, 2}

\* the tables without a missing cell all of whose columns vary
KmoTables ==
    {t \in {[n |-> NRows, scaled |-> FALSE,
             cols |-> [c \in 1..NVars |-> [name |-> VarNames[c], obj |-> FALSE, cells |-> x[c]]]] :
                x \in [1..NVars -> [1..NRows -> KmoCells]]} :
        ~CorrIsNull(Corr(t))}

KmoCall ==
    /\ pc = "idle"
    /\ \E total \in BOOLEAN :
            Return(calculate_kaiser_meyer_olkin(data, total),
                   [EmptyFrame EXCEPT !.entry = "calculate_kaiser_meyer_olkin"], {})
    /\ UNCHANGED <<data, log_warnings, self_fields>>

\* one call of calculate_kaiser_meyer_olkin
SpecKmo == InitOn(KmoTables) /\ [][KmoCall]_vars

----------------------------------------------------------------------------
(* The getters, lines 825-924 *)

\* get_communalities, lines 864-870: the row sums of the squared loadings;
\* the method returns None when there are no loadings
get_communalities(ld) ==
    IF ld # None
    THEN DataFrame([op |-> "sum of squares", axis |-> 1, of |-> ld.values], ld.index, <<"Communalities">>)
    ELSE None

\* get_uniqueness, lines 882-887
get_uniqueness(ld) ==
    IF ld # None
    THEN DataFrame([op |-> "1 -", of |-> get_communalities(ld).values], ld.index, <<"Uniqueness">>)
    ELSE None

\* the entry of a correlation matrix that stands for the communality of
\* variable i of the loadings stored; no correlation has its second
\* component
CommunalityEntry(i) ==
    <<i, 0 - 1>>

\* np.fill_diagonal(corr, communalities), line 845
FillCommunalities(m) ==
    [i \in 1..Len(m) |-> [j \in 1..Len(m) |-> IF i = j THEN CommunalityEntry(i) ELSE m[i][j]]]

\* sorted(np.real(eig(m)[0]), reverse=True), lines 839-842 and 847-850
Eigvals(m, column) ==
    DataFrame([op |-> "sorted eigenvalues", of |-> m], <<>>, <<column>>)

\* what get_eigenvalues returns, lines 835-852
get_eigenvalues(c, ld) ==
    IF c # None /\ ld # None
    THEN [kind |-> "tuple",
          e_values |-> Eigvals(c.values, "Original_Eigenvalues"),
          values |-> Eigvals(FillCommunalities(c.values), "Common_Factor_Eigenvalues")]
    ELSE None

\* a getter returns value
GetterReturns(name, value) ==
    Return(value, [EmptyFrame EXCEPT !.entry = name], {})

\* get_eigenvalues called by the user. self.corr.as_matrix() (line 837) is
\* the array the DataFrame keeps or a copy of it, pandas promising neither;
\* np.fill_diagonal (line 845) writes into what it is handed
GetEigenvalues ==
    /\ pc = "idle"
    /\ GetterReturns("get_eigenvalues", get_eigenvalues(corr, loadings))
    /\ \E shared \in BOOLEAN :
            corr' = IF corr # None /\ loadings # None /\ shared
                    THEN [corr EXCEPT !.values = FillCommunalities(corr.values)]
                    ELSE corr
    /\ UNCHANGED <<data, log_warnings, loadings, rotation_matrix>>

GetCommunalities ==
    /\ pc = "idle"
    /\ GetterReturns("get_communalities", get_communalities(loadings))
    /\ UNCHANGED <<data, log_warnings, self_fields>>

GetUniqueness ==
    /\ pc = "idle"
    /\ GetterReturns("get_uniqueness", get_uniqueness(loadings))
    /\ UNCHANGED <<data, log_warnings, self_fields>>

\* get_factor_variance, lines 900-924: the column sums of the squared
\* loadings, those over the number of rows, and their running sums
get_factor_variance(ld) ==
    IF ld # None
    THEN DataFrame([op |-> "variance", of |-> ld.values, n_rows |-> Len(ld.index)],
                   <<"SS Loadings", "Proportion Var", "Cumulative Var">>, ld.columns)
    ELSE None

GetFactorVariance ==
    /\ pc = "idle"
    /\ GetterReturns("get_factor_variance", get_factor_variance(loadings))
    /\ UNCHANGED <<data, log_warnings, self_fields>>

\* analyze called without rotation
DiagOptions ==
    {[DefaultOptions EXCEPT !.rotation = "None", !.n_factors = k] : k \in 1..NVars}

\* the one analyze the getters are called after
AnalyzeOnce ==
    /\ pc = "idle"
    /\ loadings = None
    /\ \E o \in DiagOptions : Analyze(o)

NextDiag ==
    \/ AnalyzeOnce
    \/ ObjectiveEval
    \/ MinimizeReturn
    \/ Resume
    \/ GetEigenvalues
    \/ GetCommunalities
    \/ GetUniqueness
    \/ GetFactorVariance

\* one successful analyze, and the getters called before and after it
SpecDiag == InitOn(NumericTables) /\ [][NextDiag]_vars

\* the matrix fit_factor_analysis hands to an objective function
ObjectiveInput(df) ==
    Complete(df) /\ ~CorrIsNull(Corr(df))

\* _fit_uls_objective called as minimize calls it, on psi inside or outside
\* the bounds; ret is what it computes and the matrix it leaves behind
UlsObjectiveCall ==
    /\ pc = "idle"
    /\ ObjectiveInput(data)
    /\ \E psi \in TrialPsi(NVars, NoBounds), n_factors \in 1..NVars, order \in EigOrders(NVars) :
            Return(fit_uls_objective(psi, Corr(data), n_factors, order),
                   [EmptyFrame EXCEPT !.entry = "_fit_uls_objective", !.opts.n_factors = n_factors,
                                      !.corr_mtx = Corr(data), !.evals = <<psi>>],
                   {})
    /\ UNCHANGED <<data, log_warnings, self_fields>>

\* _fit_ml_objective called as minimize calls it
MlObjectiveCall ==
    /\ pc = "idle"
    /\ ObjectiveInput(data)
    /\ \E psi \in TrialPsi(NVars, NoBounds), n_factors \in 1..NVars, order \in EigOrders(NVars) :
            Return(fit_ml_objective(psi, Corr(data), n_factors, order),
                   [EmptyFrame EXCEPT !.entry = "_fit_ml_objective", !.opts.n_factors = n_factors,
                                      !.corr_mtx = Corr(data), !.evals = <<psi>>],
                   {})
    /\ UNCHANGED <<data, log_warnings, self_fields>>

NextObjective ==
    \/ UlsObjectiveCall
    \/ MlObjectiveCall

\* one evaluation of an objective function
SpecObjective == Init /\ [][NextObjective]_vars

\* one call of varimax or promax, whose loop goes on as long as it can
SpecRotateFair == SpecRotate /\ WF_vars(VarimaxIter) /\ WF_vars(VarimaxReturn)

----------------------------------------------------------------------------
(* The properties *)

\* C1: for fewer than two factors, varimax and promax return a pair: the
\* input loadings unchanged and the k-by-k identity as rotation matrix.
C1_IdentityLaw ==
    (pc = "done" /\ frame.entry \in {"varimax", "promax"} /\ NCols(frame.loadings) < 2)
        => ret = Pair(frame.loadings, Eye(NCols(frame.loadings)))

\* C2: the result of an analysis is a value of its own: once analyze has
\* stored a result, no later step of the analyzer, and so no later call of
\* analyze, changes the correlation matrix, the loadings or the rotation
\* matrix it gave.
C2_ResultNotOverwritten ==
    [][loadings # None => self_fields' = self_fields]_vars

\* C3: the ULS objective and the ULS normalization work on a private copy:
\* after any number of objective evaluations, and after the normalization,
\* the correlation matrix of the fit is the one computed from X.
C3_PrivateCopy ==
    (frame.entry = "fit_factor_analysis" /\ frame.evals # <<>> /\ frame.opts.method # "ml")
        => frame.corr_mtx = Corr(frame.X)

\* C4: when the correlation matrix of X has a null entry,
\* fit_factor_analysis raises ValueError before the optimizer or an
\* objective function is called, and there are no loadings; when no entry is
\* null, that error is not raised.
C4_NullCorrelation ==
    frame.entry = "fit_factor_analysis" =>
        LET c      == Corr(frame.X)
            isnull == \E i \in 1..Len(c) : \E j \in 1..Len(c) : c[i][j][2] = 0
        IN  /\ isnull => /\ pc = "done"
                         /\ ret = ValueError("corr_null")
                         /\ frame.evals = <<>>
                         /\ frame.res = Nothing
                         /\ frame.loadings = Nothing
            /\ ~isnull => ret # ValueError("corr_null")

C4_Witness ==
    /\ pc = "done"
    /\ frame.entry = "fit_factor_analysis"
    /\ ret = ValueError("corr_null")
    /\ \E c \in 1..NVars : \A r \in 1..NRows : data.cols[c].cells[r] = data.cols[c].cells[1]

\* C5: analyze with a rotation other than 'varimax', 'promax' and None
\* raises ValueError for every table and every other option, before it
\* cleans, imputes, scales, fits or rotates.
C5_RotationChecked ==
    (frame.entry = "analyze" /\ frame.opts.rotation \notin {"varimax", "promax", "None"})
        => /\ pc = "done"
           /\ ret = ValueError("rotation")
           /\ frame.done = <<>>
           /\ frame.df = NoTable
           /\ frame.X = NoTable
           /\ log = {}

C5_Witness ==
    /\ pc = "done"
    /\ ret = ValueError("rotation")
    /\ frame.done = <<>>
    /\ log_warnings
    /\ \E c \in 1..NVars : data.cols[c].obj
    /\ \E c \in 1..NVars : ~data.cols[c].obj /\ data.cols[c].cells[1] = NaN
    /\ frame.opts.impute \notin {"drop", "mean", "median"}

\* C6: analyze raises the ValueError of the imputation exactly when the
\* numeric columns of the table hold a missing cell and impute is none of
\* 'drop', 'mean', 'median'; for a table without a missing cell every impute
\* is accepted and analyze goes on to scaling.
C6_ImputeChecked ==
    frame.entry = "analyze" =>
        LET valid   == frame.opts.rotation \in {"varimax", "promax", "None"}
            missing == \E c \in 1..Len(data.cols) :
                            /\ ~data.cols[c].obj
                            /\ \E r \in 1..data.n : data.cols[c].cells[r] = NaN
            known   == frame.opts.impute \in {"drop", "mean", "median"}
        IN  /\ ret = ValueError("impute") <=> (valid /\ missing /\ ~known)
            /\ (valid /\ ~missing) => "scale" \in Range(frame.done)

C6_Witness ==
    /\ pc = "done"
    /\ frame.entry = "analyze"
    /\ ret = ValueError("impute")
    /\ frame.done = <<"remove_non_numeric">>
    /\ frame.opts.impute \notin {"drop", "mean", "median"}

\* C7: after an imputation with 'drop', 'mean' or 'median' the table handed
\* to scale has no missing cell, also when a column of the input has all of
\* its cells missing.
C7_ImputedComplete ==
    (frame.entry = "analyze" /\ "impute" \in Range(frame.done))
        => \A c \in 1..Len(frame.df.cols) : \A r \in 1..frame.df.n : frame.df.cols[c].cells[r] # NaN

\* C8 as stated: when minimize reports no success, fit_factor_analysis still
\* returns the loadings normalized at the psi minimize gave, and the warning
\* of the failure is logged.
C8_WarningAlways ==
    (pc = "done" /\ frame.entry = "fit_factor_analysis" /\ frame.res # Nothing /\ ~frame.res.success)
        => /\ ret.kind = "DataFrame"
           /\ ret.values.solution = frame.res.x
           /\ "converge" \in log

\* C8, amended: when minimize reports no success, fit_factor_analysis still
\* returns the loadings normalized at the psi minimize gave; the warning of
\* the failure is logged exactly when the analyzer was made with
\* log_warnings true.
C8_NonConvergence ==
    (pc = "done" /\ frame.entry = "fit_factor_analysis" /\ frame.res # Nothing /\ ~frame.res.success)
        => /\ ret.kind = "DataFrame"
           /\ ret.values.solution = frame.res.x
           /\ "converge" \in log <=> log_warnings

C8_Witness ==
    /\ pc = "done"
    /\ frame.entry = "fit_factor_analysis"
    /\ frame.res # Nothing
    /\ ~frame.res.success
    /\ ~log_warnings
    /\ ret.kind = "DataFrame"
    /\ log = {}

\* C9 as stated: every method but 'ml' is fitted with the ULS objective and
\* normalized by the ULS normalization, a method that is neither 'ml' nor
\* 'minres' is warned of, and objective and normalization are of one method.
C9_WarningAlways ==
    (frame.entry = "fit_factor_analysis" /\ frame.objective # "none") =>
        LET method == frame.opts.method
            normed == pc = "done" /\ ret.kind = "DataFrame"
        IN  /\ method # "ml" => /\ frame.objective = "uls"
                                /\ normed => ret.values.op = "wls"
            /\ method \notin {"ml", "minres"} => "method" \in log
            /\ normed => (ret.values.op = "ml" <=> frame.objective = "ml")

\* C9, amended: every method but 'ml' is fitted with the ULS objective and
\* normalized by the ULS normalization, a method that is neither 'ml' nor
\* 'minres' is warned of exactly when the analyzer was made with
\* log_warnings true, and objective and normalization are of one method.
C9_MethodFallback ==
    (frame.entry = "fit_factor_analysis" /\ frame.objective # "none") =>
        LET method == frame.opts.method
            normed == pc = "done" /\ ret.kind = "DataFrame"
        IN  /\ method # "ml" => /\ frame.objective = "uls"
                                /\ normed => ret.values.op = "wls"
            /\ method \notin {"ml", "minres"} => ("method" \in log <=> log_warnings)
            /\ normed => (ret.values.op = "ml" <=> frame.objective = "ml")

C9_Witness ==
    /\ pc = "done"
    /\ frame.entry = "fit_factor_analysis"
    /\ frame.opts.method = "pa"
    /\ frame.objective = "uls"
    /\ frame.evals # <<>>
    /\ ret.kind = "DataFrame"
    /\ ret.values.op = "wls"
    /\ ~log_warnings
    /\ log = {}

\* the loop of varimax, run for varimax or for promax, as long as the call
\* is in it or has just left it
C10_Loop ==
    (frame.via \in {"varimax", "promax"} /\ pc \in {"varimax", "done"}) =>
        LET r    == frame.rot
            test == r.old_d # 0 /\ (r.d <= r.old_d \/ (r.d - r.old_d) * TolDen < r.old_d)
        IN  /\ r.iter <= r.max_iter
            /\ r.broke => r.iter >= 2
            /\ r.iter >= 1 => (r.broke <=> test)
            /\ pc = "done" => /\ r.broke \/ r.iter = r.max_iter
                              /\ ret.kind = "pair"
                              /\ frame.via = "varimax" => ret.rotation_mtx = r.rotation_mtx

\* C10: the loop of varimax ends: it makes at most max_iter iterations, it
\* does not stop on the convergence test in the first, it stops at the first
\* later iteration whose previous d is not 0 and whose d / old_d is below
\* 1 + tolerance, and varimax returns the loadings and the rotation matrix
\* whether the test or the cap ended the loop.
C10_VarimaxTerminates ==
    /\ []C10_Loop
    /\ (pc = "varimax") ~> (pc = "done")

C10_Witness ==
    /\ pc = "done"
    /\ frame.entry = "varimax"
    /\ frame.via = "varimax"
    /\ frame.rot.broke
    /\ frame.rot.iter = 2
    /\ frame.rot.max_iter = MaxIter
    /\ ret.kind = "pair"

\* C11: when coef.T * coef is singular in promax, the failure of inv is
\* caught and pinv stands in: promax does not fail at the rescaling of the
\* coefficients and returns the loadings and the product of the rotation
\* matrix of varimax with the coefficients.
C11_PinvFallback ==
    (pc = "done" /\ frame.entry = "promax" /\ frame.via = "promax") =>
        /\ ret.kind = "pair"
        /\ ret.loadings.kind = "DataFrame"
        /\ ret.rotation_mtx.kind = "dot"
        /\ LET diag_inv == ret.rotation_mtx.right.diag_inv
           IN  /\ diag_inv.op = (IF diag_inv.of.singular THEN "pinv" ELSE "inv")
               /\ ret.loadings.values.coef.diag_inv = diag_inv

C11_Witness ==
    /\ pc = "done"
    /\ frame.entry = "promax"
    /\ frame.via = "promax"
    /\ ret.kind = "pair"
    /\ ret.rotation_mtx.right.diag_inv.op = "pinv"
    /\ ret.rotation_mtx.right.diag_inv.of.singular

\* C14: in the ULS objective the eigenvectors the loadings are built from
\* belong to the k largest eigenvalues: whatever the order in which eig
\* returns its eigenpairs, column j of the vectors kept is the eigenvector
\* of the j-th largest eigenvalue, the j-th of the values kept.
C14_TopVectors ==
    (pc = "done" /\ frame.entry = "_fit_uls_objective") =>
        /\ Len(ret.vectors) = Len(ret.values)
        /\ \A j \in 1..Len(ret.vectors) : ret.vectors[j] = ret.values[j]

\* C15: in the ML normalization value j, the j-th largest eigenvalue less 1
\* and clipped at 0, is multiplied with the eigenvector of that eigenvalue:
\* whatever the order in which eig returns its eigenpairs, value j and
\* column j are an eigenpair.
C15_EigenPairs ==
    (pc = "done" /\ frame.entry = "fit_factor_analysis" /\ ret.kind = "DataFrame"
        /\ ret.values.op = "ml") =>
        \A j \in 1..Len(ret.values.cols) : ret.values.cols[j].vec = ret.values.cols[j].val

\* the correlation matrix and the loadings are there together or not at all,
\* and without them there is no rotation matrix
C17_AllOrNone ==
    /\ loadings = None => (corr = None /\ rotation_matrix = None)
    /\ loadings # None => corr # None

\* a step changes a field only as the return of a successful analyze, which
\* sets all three from that call; an analyze that raises changes none
C17_Step ==
    /\ self_fields' # self_fields =>
            /\ pc = "minimize" \/ pc = "varimax"
            /\ pc' = "done"
            /\ frame'.entry = "analyze"
            /\ ret' = None
    /\ (pc # "done" /\ pc' = "done" /\ frame'.entry = "analyze") =>
            IF ret' = None
            THEN /\ corr' = DataFrame(Corr(frame'.df), ColumnNames(frame'.df), ColumnNames(frame'.df))
                 /\ loadings'.kind = "DataFrame"
                 /\ Len(loadings'.columns) = frame'.opts.n_factors
                 /\ frame'.opts.rotation = "None" => (loadings' = frame'.loadings /\ rotation_matrix' = None)
                 /\ frame'.opts.rotation # "None" => rotation_matrix' # None
            ELSE /\ ret'.kind \in {"ValueError", "LinAlgError"}
                 /\ self_fields' = self_fields

\* C17: over any sequence of analyze calls on one analyzer the fields corr,
\* loadings and rotation_matrix are all None or are what the last successful
\* analyze stored: an analyze that fails leaves the three as they were, and
\* a successful analyze without rotation stores None as rotation matrix,
\* whatever was stored before.
C17_LastSuccess ==
    /\ []C17_AllOrNone
    /\ [][C17_Step]_vars

C17_Witness ==
    /\ pc = "done"
    /\ frame.entry = "analyze"
    /\ ret.kind \in {"ValueError", "LinAlgError"}
    /\ loadings # None
    /\ rotation_matrix # None

\* C16: get_eigenvalues leaves the correlation matrix analyze stored as it
\* was, so that each of any number of calls after one analyze returns the
\* eigenvalues of that matrix and the eigenvalues of that matrix with the
\* communalities on its diagonal, as the first call did.
C16_CorrKept ==
    LET stored == CorrFrame(AnalyzePrepare(data, DefaultOptions, log_warnings).df)
    IN  /\ corr # None => corr = stored
        /\ (pc = "done" /\ frame.entry = "get_eigenvalues" /\ ret # None) =>
                /\ ret.e_values = Eigvals(stored.values, "Original_Eigenvalues")
                /\ ret.values = Eigvals(FillCommunalities(stored.values), "Common_Factor_Eigenvalues")

\* C13: for every invertible correlation matrix, the identity among them,
\* calculate_kaiser_meyer_olkin returns a number that is defined and lies
\* in [0, 1]. (Held of every number of a Series too, should it return one.)
C13_KmoInUnit ==
    (pc = "done" /\ frame.entry = "calculate_kaiser_meyer_olkin" /\ Det(Gram(data)) # 0) =>
        LET numbers == IF ret.kind = "float" THEN <<ret.value>> ELSE ret.values
        IN  /\ ret.kind \in {"float", "Series"}
            /\ \A i \in 1..Len(numbers) :
                    /\ numbers[i][2] > 0
                    /\ 0 <= numbers[i][1]
                    /\ numbers[i][1] <= numbers[i][2]

====
